---- MODULE Spec2Model ----
(***************************************************************************)
(* Model of dmrub/jira-tools.                                              *)
(*                                                                         *)
(*   Spec       jira_edit_labels.py: main's loop over the issues obtained  *)
(*              from --key and from --jql, the label computation and the   *)
(*              conditional update call, against a model of the tracker.   *)
(*   SpecFetch  jira_download_issues.py: the generator jira_get_issues     *)
(*              against a server holding an unchanging result set.         *)
(*   SpecIssue  jira_download_issues.py: main's loop body on one issue     *)
(*              payload at a time (JiraIssue, the comment-count check,     *)
(*              to_struct / to_text, the file written and the download of  *)
(*              the attachments).                                          *)
(*   SpecSession  jira_edit_labels.py: main before the loop (the           *)
(*              configuration file, the domain, the credentials and the    *)
(*              url of the session).                                       *)
(*                                                                         *)
(* Each specification constrains only its own variables; the variables of  *)
(* the others stay at their initial values.                                *)
(***************************************************************************)
EXTENDS Integers, Sequences, FiniteSets, TLC

VARIABLES
    \* ---- label tool (jira_edit_labels.py) ----
    remote,              \* the tracker: issue key -> its labels (a list without duplicates)
    server_cap,          \* the most records the tracker returns for one search request
    args,                \* the parsed command line: keys, jql, add_labels, remove_labels, dry_run
    pc,                  \* where main is: "start", "keys", "query", "done", "exit1"
    key_idx,             \* jira_get_issues_from_keys: how many keys have been yielded
    start,               \* jira_get_issues: the offset of the last request
    page,                \* jira_get_issues: the issues of the last response
    page_idx,            \* jira_get_issues: how many issues of the page have been yielded
    num_issues,          \* main: issues processed
    num_updated_issues,  \* main: issues whose update flag was set
    update_calls,        \* every jira.update_issue_field call, in order: [key, labels]
    cur,                 \* the loop body's locals after the last iteration
    processed,           \* the key of every issue the loop body has run on, in order
    remote0,             \* the tracker as it was when the run started
    \* ---- download tool, jira_get_issues (jira_download_issues.py) ----
    f_result,            \* the tracker: the records matching the query, in server order
    f_cap,               \* the caps the tracker may put on the records of one response
    f_pc,                \* the generator: "run" or "done"
    f_start,             \* start: the offset of the last request
    f_total,             \* total: -1, then the total the first response reports
    f_page,              \* issues: the records of the last response
    f_idx,               \* how many records of the page have been yielded
    f_yielded,           \* every record yielded, in order
    f_requests,          \* every jira.jql call, in order: [start, num_issues]
    \* ---- download tool, main's loop (jira_download_issues.py) ----
    d_issues,            \* the issue records the generator hands to the loop
    d_format,            \* args.output_format
    d_idx,               \* how many issues the loop has taken
    d_pc,                \* "loop", "done" or "raised"
    d_error,             \* the exception that ended the run, or None
    d_files,             \* the files written: issue key -> content
    d_download,          \* args.download_attachments
    d_server,            \* the content-length the server reports for an attachment, 0 for none
    d_dirs,              \* the attachment directories made under dest_dir: issue keys
    d_disk,              \* the attachment files under dest_dir: <<key, filename>> -> file
    \* ---- label tool, main before the loop (jira_edit_labels.py) ----
    s_cfg,               \* the configuration file: whether it exists, DEFAULT's domain, the sections
    s_args,              \* the parsed command line: atlassian_domain, add_labels, remove_labels
    s_pc,                \* "start", "creds", "labels", "session", "exit1" or "raised"
    s_domain,            \* main's local atlassian_domain, None before it is assigned
    s_user,              \* main's local user
    s_password,          \* main's local password
    s_url,               \* the url the Jira session was made with: <<>>, then <<"https://", domain>>
    s_error              \* the exception that ended the run, or None

labelVars == <<remote, server_cap, args, pc, key_idx, start, page, page_idx,
               num_issues, num_updated_issues, update_calls, cur,
               processed, remote0>>

fetchVars == <<f_result, f_cap, f_pc, f_start, f_total, f_page, f_idx, f_yielded, f_requests>>

issueVars == <<d_issues, d_format, d_idx, d_pc, d_error, d_files,
               d_download, d_server, d_dirs, d_disk>>

sessionVars == <<s_cfg, s_args, s_pc, s_domain, s_user, s_password, s_url, s_error>>

vars == <<labelVars, fetchVars, issueVars, sessionVars>>

Range(s) == {s[i] : i \in DOMAIN s}

Min(x, y) == IF x <= y THEN x ELSE y

None == "None"

(***************************************************************************)
(* Bounds and input sets of the label tool.                                *)
(***************************************************************************)
Labels == {"a", "b", "c"}

IssueKeys == <<"K1", "K2">>

\* --add and --remove together carry at most this many labels
MaxArgLabels == 2

\* the page size jira_get_issues asks for
limit == 200

\* lists over S of length n
RECURSIVE SeqsOfLen(_, _)
SeqsOfLen(S, n) ==
    IF n = 0 THEN {<<>>}
    ELSE {Append(s, x) : s \in SeqsOfLen(S, n - 1), x \in S}

SeqsUpTo(S, n) == UNION {SeqsOfLen(S, k) : k \in 0..n}

NoDuplicates(s) == \A i, j \in DOMAIN s : s[i] = s[j] => i = j

\* the label lists an issue of the tracker can carry: a tracker's labels are a set
IssueLabelLists == {s \in SeqsUpTo(Labels, 2) : NoDuplicates(s)}

\* the --key lists of the model: none, and both issues, not in key order
KeyLists == {<<>>, <<"K2", "K1">>}

\* the queries of the model: none, one matching every issue, one matching a label
JqlAll == "order by key"
JqlLabelA == "labels = a"
Jqls == {None, JqlAll, JqlLabelA}

ServerCaps == {1, limit}

(***************************************************************************)
(* The tracker.                                                            *)
(***************************************************************************)
\* whether an issue with these labels matches the query
Matches(jql, labels) ==
    IF jql = JqlLabelA THEN "a" \in Range(labels) ELSE TRUE

\* jira.issue(key, fields): the issue record as the tracker holds it now
IssueDict(rem, key) == [key |-> key, labels |-> rem[key]]

\* the result set of the query as the tracker holds it now, in key order
RECURSIVE ResultFrom(_, _, _)
ResultFrom(rem, jql, i) ==
    IF i > Len(IssueKeys) THEN <<>>
    ELSE (IF Matches(jql, rem[IssueKeys[i]])
          THEN <<IssueDict(rem, IssueKeys[i])>> ELSE <<>>)
         \o ResultFrom(rem, jql, i + 1)

ResultSet(rem, jql) == ResultFrom(rem, jql, 1)

\* jira.jql(jql, start, limit): the records of the result from offset `from`,
\* at most lim of them and at most the tracker's own cap
JqlPage(result, from, lim, cap) ==
    SubSeq(result, from + 1, Min(Len(result), from + Min(lim, cap)))

\* list without the later occurrences of its elements
RECURSIVE Dedup(_)
Dedup(s) ==
    IF s = <<>> THEN <<>>
    ELSE LET d == Dedup(SubSeq(s, 1, Len(s) - 1))
         IN IF s[Len(s)] \in Range(d) THEN d ELSE Append(d, s[Len(s)])

\* jira.update_issue_field(key, {"labels": labels}): the tracker keeps labels as a set
StoreLabels(rem, key, labels) == [rem EXCEPT ![key] = Dedup(labels)]

(***************************************************************************)
(* The label computation of main's loop body.                              *)
(***************************************************************************)
\* list.remove(x): the list without the first occurrence of x
RECURSIVE ListRemove(_, _)
ListRemove(s, x) ==
    IF s = <<>> THEN <<>>
    ELSE IF Head(s) = x THEN Tail(s)
    ELSE <<Head(s)>> \o ListRemove(Tail(s), x)

\* AddLoop with a fault: the update flag is set for every label to add, also one
\* the issue already has
RECURSIVE AddLoopAlwaysFlag(_, _, _)
AddLoopAlwaysFlag(st, old_labels_set, add_labels) ==
    IF add_labels = <<>> THEN st
    ELSE LET label == Head(add_labels)
         IN AddLoopAlwaysFlag(
                IF label \notin old_labels_set
                THEN [new_labels |-> Append(st.new_labels, label), update_labels |-> TRUE]
                ELSE [st EXCEPT !.update_labels = TRUE],
                old_labels_set, Tail(add_labels))

\* for label in args.add_labels: append the labels the issue did not have
RECURSIVE AddLoop(_, _, _)
AddLoop(st, old_labels_set, add_labels) ==
    IF add_labels = <<>> THEN st
    ELSE LET label == Head(add_labels)
         IN AddLoop(
                IF label \notin old_labels_set
                THEN [new_labels |-> Append(st.new_labels, label), update_labels |-> TRUE]
                ELSE st,
                old_labels_set, Tail(add_labels))

\* for label in args.remove_labels: remove the labels the issue had
RECURSIVE RemoveLoop(_, _, _)
RemoveLoop(st, old_labels_set, remove_labels) ==
    IF remove_labels = <<>> THEN st
    ELSE LET label == Head(remove_labels)
         IN RemoveLoop(
                IF label \in old_labels_set /\ label \in Range(st.new_labels)
                THEN [new_labels |-> ListRemove(st.new_labels, label), update_labels |-> TRUE]
                ELSE st,
                old_labels_set, Tail(remove_labels))

\* new_labels and update_labels as main computes them from old_labels
ComputeLabels(old_labels, add_labels, remove_labels) ==
    RemoveLoop(AddLoop([new_labels |-> old_labels, update_labels |-> FALSE],
                       Range(old_labels), add_labels),
               Range(old_labels), remove_labels)

\* CallsUpdate with a fault: dry_run is not consulted
CallsUpdateIgnoringDryRun(update_labels, dry_run) == update_labels

\* whether the loop body reaches jira.update_issue_field
CallsUpdate(update_labels, dry_run) == update_labels /\ ~dry_run

(***************************************************************************)
(* The label tool's main before the loop: the configuration file, the      *)
(* domain, the credentials, the check of the label lists and the session.  *)
(***************************************************************************)
Domains == {"a.atlassian.net", "b.atlassian.net"}

\* --atlassian-domain: not given (None), given empty, or given with a domain
ArgDomains == {None, ""} \cup Domains

\* a section of the configuration file; an option that is not set is None
NoSection == [present |-> FALSE, user |-> None, api_token |-> None]

UserOf(d) == IF d = "a.atlassian.net" THEN "user-a" ELSE "user-b"

TokenOf(d) == IF d = "a.atlassian.net" THEN "token-a" ELSE "token-b"

SectionsOf(d) ==
    {NoSection} \cup
    {[present |-> TRUE, user |-> u, api_token |-> t] :
        u \in {None, UserOf(d)}, t \in {None, TokenOf(d)}}

NoConfigFile ==
    [exists |-> FALSE, default_domain |-> None, sections |-> [d \in Domains |-> NoSection]]

ConfigFiles ==
    {NoConfigFile} \cup
    {[exists |-> TRUE, default_domain |-> dd, sections |-> sec] :
        dd \in {None} \cup Domains,
        sec \in {f \in [Domains -> UNION {SectionsOf(d) : d \in Domains}] :
                    \A d \in Domains : f[d] \in SectionsOf(d)}}

SessionArgs ==
    {[atlassian_domain |-> d, add_labels |-> a, remove_labels |-> r] :
        d \in ArgDomains, a \in {<<>>, <<"a">>}, r \in {<<>>, <<"b">>}}

\* Python's truth value of args.atlassian_domain: None and "" are false
Truthy(value) == value # None /\ value # ""

\* cfg_parser.get(section, option, fallback=None): the fallback for a missing
\* section and for a missing option
CfgGet(cfg, section, option) ==
    IF section \in Domains /\ cfg.sections[section].present
    THEN cfg.sections[section][option]
    ELSE None

\* line 51: the command line's domain if it is given and not empty, else DEFAULT's
ResolveDomain(cfg, a) ==
    IF Truthy(a.atlassian_domain) THEN a.atlassian_domain ELSE cfg.default_domain

\* line 51 raises configparser.NoOptionError when DEFAULT has no domain
ResolveRaises(cfg, a) == ~Truthy(a.atlassian_domain) /\ cfg.default_domain = None

\* line 82: the domain the url of the session is built from
SessionDomain(a, resolved) == a.atlassian_domain

\* line 82: "https://" + None raises TypeError
SessionRaises(a, resolved) == SessionDomain(a, resolved) = None

SessionUrl(a, resolved) == <<"https://", SessionDomain(a, resolved)>>

\* lines 46-48
ConfigFileNotFound ==
    /\ s_pc = "start"
    /\ ~s_cfg.exists
    /\ s_pc' = "exit1"
    /\ UNCHANGED <<s_cfg, s_args, s_domain, s_user, s_password, s_url, s_error,
                   labelVars, fetchVars, issueVars>>

\* line 51, when cfg_parser.get(DEFAULTSECT, "domain") raises
NoDefaultDomain ==
    /\ s_pc = "start"
    /\ s_cfg.exists
    /\ ResolveRaises(s_cfg, s_args)
    /\ s_pc' = "raised"
    /\ s_error' = "NoOptionError"
    /\ UNCHANGED <<s_cfg, s_args, s_domain, s_user, s_password, s_url,
                   labelVars, fetchVars, issueVars>>

\* lines 51-55: the domain is resolved, its section has no user
UserMissing ==
    /\ s_pc = "start"
    /\ s_cfg.exists
    /\ ~ResolveRaises(s_cfg, s_args)
    /\ LET d == ResolveDomain(s_cfg, s_args)
       IN /\ CfgGet(s_cfg, d, "user") = None
          /\ s_domain' = d
    /\ s_pc' = "exit1"
    /\ UNCHANGED <<s_cfg, s_args, s_user, s_password, s_url, s_error,
                   labelVars, fetchVars, issueVars>>

\* lines 51-59: the domain is resolved, its section has a user and no api_token
ApiTokenMissing ==
    /\ s_pc = "start"
    /\ s_cfg.exists
    /\ ~ResolveRaises(s_cfg, s_args)
    /\ LET d == ResolveDomain(s_cfg, s_args)
       IN /\ CfgGet(s_cfg, d, "user") # None
          /\ CfgGet(s_cfg, d, "api_token") = None
          /\ s_domain' = d
          /\ s_user' = CfgGet(s_cfg, d, "user")
    /\ s_pc' = "exit1"
    /\ UNCHANGED <<s_cfg, s_args, s_password, s_url, s_error,
                   labelVars, fetchVars, issueVars>>

\* lines 51-59: the domain is resolved and its section gives user and api_token
CredentialsRead ==
    /\ s_pc = "start"
    /\ s_cfg.exists
    /\ ~ResolveRaises(s_cfg, s_args)
    /\ LET d == ResolveDomain(s_cfg, s_args)
       IN /\ CfgGet(s_cfg, d, "user") # None
          /\ CfgGet(s_cfg, d, "api_token") # None
          /\ s_domain' = d
          /\ s_user' = CfgGet(s_cfg, d, "user")
          /\ s_password' = CfgGet(s_cfg, d, "api_token")
    /\ s_pc' = "creds"
    /\ UNCHANGED <<s_cfg, s_args, s_url, s_error, labelVars, fetchVars, issueVars>>

\* lines 78-80: without labels to add or remove the tool exits with status 1
NoLabelsGiven ==
    /\ s_pc = "creds"
    /\ s_args.add_labels = <<>> /\ s_args.remove_labels = <<>>
    /\ s_pc' = "exit1"
    /\ UNCHANGED <<s_cfg, s_args, s_domain, s_user, s_password, s_url, s_error,
                   labelVars, fetchVars, issueVars>>

\* line 82: the session is made
CreateSession ==
    /\ s_pc = "creds"
    /\ ~(s_args.add_labels = <<>> /\ s_args.remove_labels = <<>>)
    /\ ~SessionRaises(s_args, s_domain)
    /\ s_url' = SessionUrl(s_args, s_domain)
    /\ s_pc' = "session"
    /\ UNCHANGED <<s_cfg, s_args, s_domain, s_user, s_password, s_error,
                   labelVars, fetchVars, issueVars>>

\* line 82: building the url raises
CreateSessionRaises ==
    /\ s_pc = "creds"
    /\ ~(s_args.add_labels = <<>> /\ s_args.remove_labels = <<>>)
    /\ SessionRaises(s_args, s_domain)
    /\ s_pc' = "raised"
    /\ s_error' = "TypeError"
    /\ UNCHANGED <<s_cfg, s_args, s_domain, s_user, s_password, s_url,
                   labelVars, fetchVars, issueVars>>

SessionNext ==
    \/ ConfigFileNotFound
    \/ NoDefaultDomain
    \/ UserMissing
    \/ ApiTokenMissing
    \/ CredentialsRead
    \/ NoLabelsGiven
    \/ CreateSession
    \/ CreateSessionRaises

(***************************************************************************)
(* The label tool as a state machine.                                      *)
(***************************************************************************)
NoIssue == [key |-> None, old_labels |-> <<>>, new_labels |-> <<>>,
            update_labels |-> FALSE, called |-> FALSE]

ArgsSet ==
    {[keys |-> k, jql |-> q, add_labels |-> a, remove_labels |-> r, dry_run |-> d] :
        k \in KeyLists, q \in Jqls,
        a \in SeqsUpTo(Labels, MaxArgLabels), r \in SeqsUpTo(Labels, MaxArgLabels),
        d \in BOOLEAN}

\* main before the loop: without labels to add or remove the tool exits with status 1
NoLabelsExit ==
    /\ pc = "start"
    /\ args.add_labels = <<>> /\ args.remove_labels = <<>>
    /\ pc' = "exit1"
    /\ UNCHANGED <<remote, server_cap, args, key_idx, start, page, page_idx,
                   num_issues, num_updated_issues, update_calls, cur,
                   processed, remote0,
                   fetchVars, issueVars, sessionVars>>

EnterLoop ==
    /\ pc = "start"
    /\ ~(args.add_labels = <<>> /\ args.remove_labels = <<>>)
    /\ pc' = "keys"
    /\ UNCHANGED <<remote, server_cap, args, key_idx, start, page, page_idx,
                   num_issues, num_updated_issues, update_calls, cur,
                   processed, remote0,
                   fetchVars, issueVars, sessionVars>>

\* the body of main's for loop on one issue record
ProcessIssue(issue_dict) ==
    LET issue_key == issue_dict.key
        old_labels == issue_dict.labels
        st == ComputeLabels(old_labels, args.add_labels, args.remove_labels)
        call == CallsUpdate(st.update_labels, args.dry_run)
    IN /\ num_issues' = num_issues + 1
       /\ num_updated_issues' = IF st.update_labels THEN num_updated_issues + 1
                                ELSE num_updated_issues
       /\ update_calls' = IF call
                          THEN Append(update_calls, [key |-> issue_key, labels |-> st.new_labels])
                          ELSE update_calls
       /\ remote' = IF call THEN StoreLabels(remote, issue_key, st.new_labels) ELSE remote
       /\ processed' = Append(processed, issue_key)
       /\ cur' = [key |-> issue_key, old_labels |-> old_labels,
                  new_labels |-> st.new_labels, update_labels |-> st.update_labels,
                  called |-> call]

\* jira_get_issues_from_keys yields jira.issue(key) and the loop body runs on it
IssueFromKeys ==
    /\ pc = "keys"
    /\ key_idx < Len(args.keys)
    /\ key_idx' = key_idx + 1
    /\ ProcessIssue(IssueDict(remote, args.keys[key_idx + 1]))
    /\ UNCHANGED <<remote0, server_cap, args, pc, start, page, page_idx,
                   fetchVars, issueVars, sessionVars>>

\* chain(): the keys are exhausted, the query generator starts
KeysExhausted ==
    /\ pc = "keys"
    /\ key_idx = Len(args.keys)
    /\ pc' = "query"
    /\ UNCHANGED <<remote, server_cap, args, key_idx, start, page, page_idx,
                   num_issues, num_updated_issues, update_calls, cur,
                   processed, remote0,
                   fetchVars, issueVars, sessionVars>>

\* jira_get_issues: `if not jql: return`
NoJqlReturn ==
    /\ pc = "query"
    /\ args.jql = None
    /\ pc' = "done"
    /\ UNCHANGED <<remote, server_cap, args, key_idx, start, page, page_idx,
                   num_issues, num_updated_issues, update_calls, cur,
                   processed, remote0,
                   fetchVars, issueVars, sessionVars>>

\* jira_get_issues: the page is used up; start moves past it and the next page is
\* requested; an empty page ends the generator and with it main's loop
RequestPage ==
    /\ pc = "query"
    /\ args.jql # None
    /\ page_idx = Len(page)
    /\ LET from == start + Len(page)
           issues == JqlPage(ResultSet(remote, args.jql), from, limit, server_cap)
       IN /\ start' = from
          /\ page' = issues
          /\ page_idx' = 0
          /\ pc' = IF Len(issues) = 0 THEN "done" ELSE "query"
    /\ UNCHANGED <<remote, server_cap, args, key_idx,
                   num_issues, num_updated_issues, update_calls, cur,
                   processed, remote0,
                   fetchVars, issueVars, sessionVars>>

\* jira_get_issues yields the next issue of the page and the loop body runs on it
IssueFromPage ==
    /\ pc = "query"
    /\ page_idx < Len(page)
    /\ page_idx' = page_idx + 1
    /\ ProcessIssue(page[page_idx + 1])
    /\ UNCHANGED <<remote0, server_cap, args, pc, key_idx, start, page,
                   fetchVars, issueVars, sessionVars>>

LabelNext ==
    \/ NoLabelsExit
    \/ EnterLoop
    \/ IssueFromKeys
    \/ KeysExhausted
    \/ NoJqlReturn
    \/ RequestPage
    \/ IssueFromPage

(***************************************************************************)
(* jira_get_issues of the download tool, against an unchanging result set. *)
(***************************************************************************)
\* result sets of at most this many records are all tried, beside those around the
\* page size
MaxSmallTotal == 5

\* the sizes of the result set
Totals == (0..MaxSmallTotal)
          \cup {limit - 1, limit, limit + 1, 2 * limit, 2 * limit + 1}

\* the tracker's own caps on a page: below, at and above the page size asked for.
\* A run has one cap for all its responses; over the small result sets the tracker
\* also picks a cap anew for every response
FetchCaps == {1, 2, 3, limit, limit + 50}

\* the result set: record i is the i-th record in server order
Records(n) == [i \in 1..n |-> i]

\* NextStart with a fault: start moves by the page size asked for, not by the
\* number of records received
NextStartByLimit(start_, num_issues_) == start_ + limit

\* start = start + num_issues
NextStart(start_, num_issues_) == start_ + num_issues_

\* LoopEnds with a fault: a page shorter than asked for ends the loop
LoopEndsAtShortPage(num_issues_) == num_issues_ < limit

\* if num_issues == 0: break
LoopEnds(num_issues_) == num_issues_ = 0

\* the generator is resumed with its page used up: after a page that was yielded the
\* loop's end is decided and start moves past the page; then the next page is
\* requested, and a page with nothing to yield runs on to the same decision
FetchRequest ==
    /\ f_pc = "run"
    /\ f_idx = Len(f_page)
    /\ IF f_requests # <<>> /\ LoopEnds(Len(f_page))
       THEN /\ f_pc' = "done"
            /\ UNCHANGED <<f_start, f_total, f_page, f_idx, f_requests>>
       ELSE \E cap \in f_cap :
            LET from == IF f_requests = <<>> THEN f_start
                        ELSE NextStart(f_start, Len(f_page))
                issues == JqlPage(f_result, from, limit, cap)
            IN /\ f_start' = from
               /\ f_total' = IF f_total = -1 THEN Len(f_result) ELSE f_total
               /\ f_page' = issues
               /\ f_idx' = 0
               /\ f_requests' = Append(f_requests, [start |-> from, num_issues |-> Len(issues)])
               /\ f_pc' = IF issues = <<>> /\ LoopEnds(Len(issues)) THEN "done" ELSE "run"
    /\ UNCHANGED <<f_result, f_cap, f_yielded, labelVars, issueVars, sessionVars>>

\* for issue_dict in issues: yield issue_dict
FetchYield ==
    /\ f_pc = "run"
    /\ f_idx < Len(f_page)
    /\ f_yielded' = Append(f_yielded, f_page[f_idx + 1])
    /\ f_idx' = f_idx + 1
    /\ UNCHANGED <<f_result, f_cap, f_pc, f_start, f_total, f_page, f_requests,
                   labelVars, issueVars, sessionVars>>

FetchNext ==
    \/ FetchRequest
    \/ FetchYield

(***************************************************************************)
(* The download tool's record wrappers.  A Python value is a record [t, v]: *)
(* t is its kind and v its content.                                        *)
(***************************************************************************)
PyNone == [t |-> "None", v |-> ""]

\* the singleton that stands for a field the payload does not carry
NOT_DOWNLOADED == [t |-> "NOT_DOWNLOADED", v |-> ""]

PyStr(s) == [t |-> "str", v |-> s]

PyInt(n) == [t |-> "int", v |-> n]

PyList(xs) == [t |-> "list", v |-> xs]

\* a dict: v is a function from its keys to values
PyDict(d) == [t |-> "dict", v |-> d]

EmptyDict == PyDict(<<>>)

\* dict.get(key, default)
DictGet(d, key, default) == IF key \in DOMAIN d.v THEN d.v[key] ELSE default

\* str(value), as str.format renders a field
StrOf(value) ==
    CASE value.t = "str" -> value.v
      [] value.t = "None" -> "None"
      [] value.t = "NOT_DOWNLOADED" -> "<not downloaded>"

\* have_data with a fault: the value's truth is tested, and a comment list without
\* elements has length 0, so it is false
have_data_truthy(value) ==
    /\ value.t # "None" /\ value.t # "NOT_DOWNLOADED"
    /\ ~(value.t = "JiraCommentList"
           /\ DictGet(value, "comments", PyList(<<>>)).v = <<>>)

\* have_data: neither None nor the not-downloaded singleton
have_data(value) == value.t # "None" /\ value.t # "NOT_DOWNLOADED"

\* JiraRestObject.get_value(key, default=None)
get_value(data, key) == DictGet(data, key, PyNone)

\* JiraIssue.get_field(field_name, default=NOT_DOWNLOADED)
get_field(issue_dict, field_name) ==
    DictGet(get_value(issue_dict, "fields"), field_name, NOT_DOWNLOADED)

\* cls(value): a wrapper of class cls around the dict
Wrap(cls, value) == [t |-> cls, v |-> value.v]

\* JiraIssue.create_object_from_field: the wrapper of the field's value, or the
\* default NOT_DOWNLOADED when the field is absent or null
create_object_from_field(issue_dict, cls, key) ==
    LET value == get_field(issue_dict, key)
    IN IF value.t # "NOT_DOWNLOADED" /\ value.t # "None"
       THEN Wrap(cls, value) ELSE NOT_DOWNLOADED

\* JiraRestObject.create_object_from_value: the wrapper of the value, or None
create_object_from_value(data, cls, key) ==
    LET value == get_value(data, key)
    IN IF value.t # "None" THEN Wrap(cls, value) ELSE PyNone

\* JiraCommentList._comments: the wrapped comments; without the key, none
CommentsOf(comment_list) == DictGet(comment_list, "comments", PyList(<<>>)).v

\* JiraAuthor.to_struct
AuthorStruct(author) == [displayName |-> get_value(author, "displayName")]

\* JiraComment.to_struct: the author only when the comment carries one
CommentStruct(c) ==
    LET author_object == create_object_from_value(c, "JiraAuthor", "author")
        keys == {"body", "created", "updated"}
                \cup (IF author_object.t # "None" THEN {"author"} ELSE {})
    IN [k \in keys |->
            IF k = "author" THEN AuthorStruct(author_object) ELSE get_value(c, k)]

\* JiraComment.to_text: the author's name or a placeholder, the date and the body
CommentText(c) ==
    LET author_object == create_object_from_value(c, "JiraAuthor", "author")
    IN [author |-> IF author_object.t # "None"
                   THEN StrOf(get_value(author_object, "displayName"))
                   ELSE "<unknown author>",
        created |-> StrOf(get_value(c, "created")),
        body |-> StrOf(get_value(c, "body"))]

\* JiraCommentList.to_struct
CommentListStruct(comment_list) ==
    [i \in DOMAIN CommentsOf(comment_list) |-> CommentStruct(CommentsOf(comment_list)[i])]

\* JiraCommentList.to_text; NotDownloaded.to_text for the singleton
CommentListText(comments) ==
    IF comments.t = "NOT_DOWNLOADED" THEN <<"<not downloaded>">>
    ELSE [i \in DOMAIN CommentsOf(comments) |-> CommentText(CommentsOf(comments)[i])]

\* JiraResolution.to_struct
ResolutionStruct(r) ==
    [type |-> PyStr("JiraResolution"),
     description |-> get_value(r, "description"),
     name |-> get_value(r, "name")]

\* JiraIssue.__init__: the sub-objects made from the fields
JiraIssue(issue_dict) ==
    [data |-> issue_dict,
     parent_issue |-> create_object_from_field(issue_dict, "JiraIssue", "parent"),
     resolution_object |-> create_object_from_field(issue_dict, "JiraResolution", "resolution"),
     comments |-> create_object_from_field(issue_dict, "JiraCommentList", "comment"),
     status |-> create_object_from_field(issue_dict, "JiraStatus", "status"),
     priority |-> create_object_from_field(issue_dict, "JiraPriority", "priority"),
     reporter |-> create_object_from_field(issue_dict, "JiraAuthor", "reporter"),
     assignee |-> create_object_from_field(issue_dict, "JiraAuthor", "assignee"),
     issuetype |-> create_object_from_field(issue_dict, "JiraIssueType", "issuetype"),
     attachment |-> DictGet(get_value(issue_dict, "fields"), "attachment", PyList(<<>>)).v]

\* JiraIssue.to_struct: a dict with the plain fields as they are, and parent,
\* resolution and comments only when there is data
to_struct(issue) ==
    LET keys == {"type", "key", "summary", "description", "created", "labels",
                 "updated", "resolutiondate"}
                \cup (IF have_data(issue.parent_issue) THEN {"parent"} ELSE {})
                \cup (IF have_data(issue.resolution_object) THEN {"resolution"} ELSE {})
                \cup (IF have_data(issue.comments) THEN {"comments"} ELSE {})
    IN [k \in keys |->
            CASE k = "type" -> PyStr("JiraIssue")
              [] k = "key" -> get_value(issue.data, "key")
              [] k = "updated" -> get_value(issue.data, "updated")
              [] k = "parent" -> get_value(issue.parent_issue, "key")
              [] k = "resolution" -> ResolutionStruct(issue.resolution_object)
              [] k = "comments" -> CommentListStruct(issue.comments)
              [] OTHER -> get_field(issue.data, k)]

\* the exception JiraIssue.to_text raises, or None: joining labels that are not a
\* list fails while the arguments are made, the name of a sub-object that is the
\* not-downloaded singleton fails while the text is formatted
to_text_error(issue) ==
    IF get_field(issue.data, "labels").t # "list"
    THEN "TypeError: can only join an iterable"
    ELSE IF \E o \in {issue.issuetype, issue.status, issue.priority} :
                o.t = "NOT_DOWNLOADED"
    THEN "AttributeError: 'NotDownloaded' object has no attribute 'name'"
    ELSE None

\* JiraIssue.to_text, line by line, when it does not raise
to_text(issue) ==
    [Issue |-> StrOf(get_value(issue.data, "key")),
     Type |-> StrOf(get_value(issue.issuetype, "name")),
     Status |-> StrOf(get_value(issue.status, "name")),
     Priority |-> StrOf(get_value(issue.priority, "name")),
     Reporter |-> IF have_data(issue.reporter)
                  THEN StrOf(get_value(issue.reporter, "displayName")) ELSE "Unknown",
     Assignee |-> IF have_data(issue.assignee)
                  THEN StrOf(get_value(issue.assignee, "displayName")) ELSE "Unknown",
     Resolution |-> IF have_data(issue.resolution_object)
                    THEN StrOf(get_value(issue.resolution_object, "name"))
                    ELSE "Unresolved",
     Subtasks |-> "none",
     Summary |-> StrOf(get_field(issue.data, "summary")),
     Description |-> StrOf(get_field(issue.data, "description")),
     Labels |-> get_field(issue.data, "labels").v,
     Created |-> StrOf(get_field(issue.data, "created")),
     Updated |-> StrOf(get_value(issue.data, "updated")),
     Comments |-> CommentListText(issue.comments)]

(***************************************************************************)
(* The download tool's loop over the issue records.                        *)
(***************************************************************************)
\* the fields of an issue that the payload may lack or carry as null
Fields == {"parent", "resolution", "comment", "status", "priority", "issuetype",
           "reporter", "assignee", "labels", "summary", "description", "created",
           "resolutiondate"}

\* at most this many fields of an issue are absent or null
MaxMissing == 2

\* the comment field of an issue: no comments; one comment; one comment fetched of
\* two; no comments and no "comments" key
CommentVariants == {"none", "one", "more", "nokey"}

AComment == PyDict([body |-> PyStr("text"), created |-> PyStr("t1"),
                    author |-> PyDict([displayName |-> PyStr("Ann")])])

CommentField(variant) ==
    CASE variant = "none" -> PyDict([comments |-> PyList(<<>>), total |-> PyInt(0)])
      [] variant = "one" -> PyDict([comments |-> PyList(<<AComment>>), total |-> PyInt(1)])
      [] variant = "more" -> PyDict([comments |-> PyList(<<AComment>>), total |-> PyInt(2)])
      [] variant = "nokey" -> PyDict([total |-> PyInt(0)])

\* an attachment of an issue: its file name and the url of its content
AnAttachment == PyDict([filename |-> PyStr("f.bin"), content |-> PyStr("url-f")])

\* the value of a field that the payload carries
FieldValue(f, variant) ==
    CASE f = "comment" -> CommentField(variant)
      [] f = "parent" -> PyDict([key |-> PyStr("P1"), fields |-> EmptyDict])
      [] f = "resolution" -> PyDict([name |-> PyStr("Done"), description |-> PyStr("d")])
      [] f = "status" -> PyDict([name |-> PyStr("Open")])
      [] f = "priority" -> PyDict([name |-> PyStr("High")])
      [] f = "issuetype" -> PyDict([name |-> PyStr("Bug")])
      [] f = "reporter" -> PyDict([displayName |-> PyStr("Ann")])
      [] f = "assignee" -> PyDict([displayName |-> PyStr("Bob")])
      [] f = "labels" -> PyList(<<"x", "y">>)
      [] f = "summary" -> PyStr("S")
      [] f = "description" -> PyStr("D")
      [] f = "created" -> PyStr("T")
      [] f = "resolutiondate" -> PyStr("R")
      [] f = "attachment" -> PyList(<<AnAttachment>>)

\* an issue record of the search response: the fields in `absent` are not in the
\* payload, those in `nulls` are null; the payload carries the attachment field,
\* with one attachment, when `attachments` is "one"
IssueRecord(key, absent, nulls, variant, attachments) ==
    LET carried == (Fields \ absent)
                   \cup (IF attachments = "one" THEN {"attachment"} ELSE {})
    IN PyDict([key |-> PyStr(key),
               fields |-> PyDict([f \in carried |->
                                    IF f \in nulls THEN PyNone ELSE FieldValue(f, variant)])])

\* the issues of a run: one issue, or the issue and a second one that differs from
\* it only in that field `twin`, absent from the first, is null in the second
IssueRecords(absent, nulls, variant, twin, attachments) ==
    IF twin = None THEN <<IssueRecord("K1", absent, nulls, variant, attachments)>>
    ELSE <<IssueRecord("K1", absent, nulls, variant, attachments),
           IssueRecord("K2", absent \ {twin}, nulls \cup {twin}, variant, attachments)>>

atlassian_domain == "example.atlassian.net"

\* "https://{}/browse/{}".format(atlassian_domain, issue.key)
BrowseUrl(key) == <<"https://", atlassian_domain, "/browse/", StrOf(key)>>

\* the issue the loop takes next
NextIssue == JiraIssue(d_issues[d_idx + 1])

KeyOf(issue) == get_value(issue.data, "key").v

\* issue.comments.total: the not-downloaded singleton has no such attribute
CommentCheckRaises(issue) == issue.comments.t = "NOT_DOWNLOADED"

\* the loop body raises at the comment-count check, before any file is opened
RaiseInCommentCheck ==
    /\ d_pc = "loop"
    /\ d_idx < Len(d_issues)
    /\ CommentCheckRaises(NextIssue)
    /\ d_idx' = d_idx + 1
    /\ d_pc' = "raised"
    /\ d_error' = "AttributeError: 'NotDownloaded' object has no attribute 'total'"
    /\ UNCHANGED <<d_issues, d_format, d_files, d_download, d_server, d_dirs, d_disk,
                   labelVars, fetchVars, sessionVars>>

\* the size in bytes of the content the server sends for an attachment
BodySize == 3

\* a file under dest_dir: its size, and whether it is of this run or was there before
ExistingFile(size) == [size |-> size, content |-> "existing"]

DownloadedFile == [size |-> BodySize, content |-> "downloaded"]

\* the path os.path.join(issue_dir, filename)
AttachmentPath(key, a) == <<key, get_value(a, "filename").v>>

\* payloads with at most this many fields absent or null are run with every case
\* of DownloadCases, the others with the option off
MaxMissingWithDownload == 1

\* the runs of the model with respect to attachments: the option off; the option
\* on and an issue without attachments; the option on and one attachment, the
\* server reporting its content-length or none, the file absent from the disk or
\* there with 0 or BodySize bytes
NoDownload == [download |-> FALSE, attachments |-> "absent", total |-> BodySize, disk |-> <<>>]

DownloadCases ==
    {NoDownload, [NoDownload EXCEPT !.download = TRUE]}
    \cup {[download |-> TRUE, attachments |-> "one", total |-> t, disk |-> d] :
            t \in {0, BodySize},
            d \in {<<>>} \cup {AttachmentPath("K1", AnAttachment) :> ExistingFile(n) :
                                  n \in {0, BodySize}}}

\* download_with_progress_bar: a file of the reported size that exists is left as
\* it is, otherwise the content is written to the path
download_with_progress_bar(disk, total, fname) ==
    IF fname \in DOMAIN disk /\ disk[fname].size = total
    THEN disk
    ELSE (fname :> DownloadedFile) @@ disk

\* JiraIssue.download_attachment: every attachment of the issue, in order
RECURSIVE download_attachment(_, _, _, _)
download_attachment(disk, total, key, attachments) ==
    IF attachments = <<>> THEN disk
    ELSE download_attachment(
             download_with_progress_bar(disk, total, AttachmentPath(key, Head(attachments))),
             total, key, Tail(attachments))

\* lines 601-604: with --download-attachments the directory of the issue is made
\* and its attachments are downloaded into it
DownloadAttachments(issue) ==
    IF d_download
    THEN /\ d_dirs' = d_dirs \cup {KeyOf(issue)}
         /\ d_disk' = download_attachment(d_disk, d_server, KeyOf(issue), issue.attachment)
    ELSE UNCHANGED <<d_dirs, d_disk>>

\* lines 588-591: the local issue_struct, with browse_url set when its key is not None
issue_struct_with_url(issue) ==
    LET issue_struct == to_struct(issue)
    IN IF issue_struct["key"].t # "None"
       THEN ("browse_url" :> PyStr(BrowseUrl(issue_struct["key"]))) @@ issue_struct
       ELSE issue_struct

\* line 592: what yaml_dumper.dump is given, the dict of a second call of to_struct
YamlDumped(issue) == to_struct(issue)

\* the keys of to_struct whose value is get_field's: the not-downloaded singleton
\* when the payload has no such field (every other value is get_value's, None
\* when missing, or the struct of a sub-object that has data)
GetFieldKeys == {"summary", "description", "created", "labels", "resolutiondate"}

\* yaml_dumper.dump has no representer for the not-downloaded singleton: a dict
\* with it as the value of a key raises RepresenterError
YamlDumpRaises(struct) == \E k \in GetFieldKeys : struct[k].t = "NOT_DOWNLOADED"

\* output_format == "yaml": issue_struct is made and browse_url is set in it, then
\* the dict of a fresh to_struct call is dumped to the file; then the attachments
WriteYaml ==
    /\ d_pc = "loop"
    /\ d_idx < Len(d_issues)
    /\ ~CommentCheckRaises(NextIssue)
    /\ d_format = "yaml"
    /\ ~YamlDumpRaises(YamlDumped(NextIssue))
    /\ d_idx' = d_idx + 1
    /\ LET issue_struct == issue_struct_with_url(NextIssue)
       IN d_files' = (KeyOf(NextIssue) :>
                         [format |-> "yaml", complete |-> TRUE,
                          struct |-> YamlDumped(NextIssue)])
                     @@ d_files
    /\ DownloadAttachments(NextIssue)
    /\ UNCHANGED <<d_issues, d_format, d_pc, d_error, d_download, d_server,
                   labelVars, fetchVars, sessionVars>>

\* output_format == "yaml": the dump raises after the file was opened, the file
\* stays empty and the run ends
RaiseInYamlDump ==
    /\ d_pc = "loop"
    /\ d_idx < Len(d_issues)
    /\ ~CommentCheckRaises(NextIssue)
    /\ d_format = "yaml"
    /\ YamlDumpRaises(YamlDumped(NextIssue))
    /\ d_idx' = d_idx + 1
    /\ d_pc' = "raised"
    /\ d_error' = "RepresenterError: cannot represent an object: <not downloaded>"
    /\ d_files' = (KeyOf(NextIssue) :> [format |-> "yaml", complete |-> FALSE, struct |-> <<>>])
                  @@ d_files
    /\ UNCHANGED <<d_issues, d_format, d_download, d_server, d_dirs, d_disk,
                   labelVars, fetchVars, sessionVars>>

\* output_format == "text": the Link line, then to_text; then the attachments
WriteText ==
    /\ d_pc = "loop"
    /\ d_idx < Len(d_issues)
    /\ ~CommentCheckRaises(NextIssue)
    /\ d_format = "text"
    /\ to_text_error(NextIssue) = None
    /\ d_idx' = d_idx + 1
    /\ d_files' = (KeyOf(NextIssue) :>
                      [format |-> "text", link |-> BrowseUrl(get_value(NextIssue.data, "key")),
                       complete |-> TRUE, text |-> to_text(NextIssue)])
                  @@ d_files
    /\ DownloadAttachments(NextIssue)
    /\ UNCHANGED <<d_issues, d_format, d_pc, d_error, d_download, d_server,
                   labelVars, fetchVars, sessionVars>>

\* output_format == "text": to_text raises after the Link line was written
RaiseInToText ==
    /\ d_pc = "loop"
    /\ d_idx < Len(d_issues)
    /\ ~CommentCheckRaises(NextIssue)
    /\ d_format = "text"
    /\ to_text_error(NextIssue) # None
    /\ d_idx' = d_idx + 1
    /\ d_pc' = "raised"
    /\ d_error' = to_text_error(NextIssue)
    /\ d_files' = (KeyOf(NextIssue) :>
                      [format |-> "text", link |-> BrowseUrl(get_value(NextIssue.data, "key")),
                       complete |-> FALSE, text |-> <<>>])
                  @@ d_files
    /\ UNCHANGED <<d_issues, d_format, d_download, d_server, d_dirs, d_disk,
                   labelVars, fetchVars, sessionVars>>

\* the generator is exhausted: "Downloaded {} issues"
LoopDone ==
    /\ d_pc = "loop"
    /\ d_idx = Len(d_issues)
    /\ d_pc' = "done"
    /\ UNCHANGED <<d_issues, d_format, d_idx, d_error, d_files,
                   d_download, d_server, d_dirs, d_disk,
                   labelVars, fetchVars, sessionVars>>

IssueNext ==
    \/ RaiseInCommentCheck
    \/ WriteYaml
    \/ RaiseInYamlDump
    \/ WriteText
    \/ RaiseInToText
    \/ LoopDone

(***************************************************************************)
(* The specifications.                                                     *)
(***************************************************************************)
\* the label tool; the download tool is not run
Init ==
    /\ remote \in [Range(IssueKeys) -> IssueLabelLists]
    /\ server_cap \in ServerCaps
    /\ args \in {x \in ArgsSet : Len(x.add_labels) + Len(x.remove_labels) <= MaxArgLabels}
    /\ pc = "start"
    /\ key_idx = 0
    /\ start = 0
    /\ page = <<>>
    /\ page_idx = 0
    /\ num_issues = 0
    /\ num_updated_issues = 0
    /\ update_calls = <<>>
    /\ cur = NoIssue
    /\ processed = <<>>
    /\ remote0 = remote
    \* the download tool, idle
    /\ f_result = <<>>
    /\ f_cap = {limit}
    /\ f_pc = "idle"
    /\ f_start = 0
    /\ f_total = -1
    /\ f_page = <<>>
    /\ f_idx = 0
    /\ f_yielded = <<>>
    /\ f_requests = <<>>
    /\ d_issues = <<>>
    /\ d_format = "text"
    /\ d_idx = 0
    /\ d_pc = "idle"
    /\ d_error = None
    /\ d_files = <<>>
    /\ d_download = FALSE
    /\ d_server = 0
    /\ d_dirs = {}
    /\ d_disk = <<>>
    /\ s_cfg = NoConfigFile
    /\ s_args = [atlassian_domain |-> None, add_labels |-> <<>>, remove_labels |-> <<>>]
    /\ s_pc = "idle"
    /\ s_domain = None
    /\ s_user = None
    /\ s_password = None
    /\ s_url = <<>>
    /\ s_error = None

Next == LabelNext

Spec == Init /\ [][Next]_vars

\* the paginated fetch of the download tool; the label tool is not run
FetchInit ==
    /\ f_result \in {Records(n) : n \in Totals}
    /\ f_cap \in {{c} : c \in FetchCaps}
                 \cup (IF Len(f_result) <= MaxSmallTotal THEN {1..limit} ELSE {})
    /\ f_pc = "run"
    /\ f_start = 0
    /\ f_total = -1
    /\ f_page = <<>>
    /\ f_idx = 0
    /\ f_yielded = <<>>
    /\ f_requests = <<>>
    \* the label tool and main's loop, idle
    /\ remote = [k \in Range(IssueKeys) |-> <<>>]
    /\ server_cap = limit
    /\ args = [keys |-> <<>>, jql |-> None, add_labels |-> <<>>,
               remove_labels |-> <<>>, dry_run |-> TRUE]
    /\ pc = "idle"
    /\ key_idx = 0
    /\ start = 0
    /\ page = <<>>
    /\ page_idx = 0
    /\ num_issues = 0
    /\ num_updated_issues = 0
    /\ update_calls = <<>>
    /\ cur = NoIssue
    /\ processed = <<>>
    /\ remote0 = remote
    /\ d_issues = <<>>
    /\ d_format = "text"
    /\ d_idx = 0
    /\ d_pc = "idle"
    /\ d_error = None
    /\ d_files = <<>>
    /\ d_download = FALSE
    /\ d_server = 0
    /\ d_dirs = {}
    /\ d_disk = <<>>
    /\ s_cfg = NoConfigFile
    /\ s_args = [atlassian_domain |-> None, add_labels |-> <<>>, remove_labels |-> <<>>]
    /\ s_pc = "idle"
    /\ s_domain = None
    /\ s_user = None
    /\ s_password = None
    /\ s_url = <<>>
    /\ s_error = None

SpecFetch == FetchInit /\ [][FetchNext]_vars

\* the generator is resumed until it ends: main's for loop takes every record
SpecFetchFair == SpecFetch /\ WF_vars(FetchNext)

\* main's loop of the download tool over issue records; the label tool is not run
IssueInit ==
    /\ \E missing \in {m \in SUBSET Fields : Cardinality(m) <= MaxMissing} :
       \E nulls \in SUBSET missing :
       \E variant \in CommentVariants :
       \E twin \in (missing \ nulls) \cup {None} :
       \E dl \in (IF Cardinality(missing) <= MaxMissingWithDownload
                  THEN DownloadCases ELSE {NoDownload}) :
          /\ d_issues = IssueRecords(missing \ nulls, nulls, variant, twin, dl.attachments)
          /\ d_download = dl.download
          /\ d_server = dl.total
          /\ d_disk = dl.disk
    /\ d_format \in {"yaml", "text"}
    /\ d_idx = 0
    /\ d_pc = "loop"
    /\ d_error = None
    /\ d_files = <<>>
    /\ d_dirs = {path[1] : path \in DOMAIN d_disk}
    /\ s_cfg = NoConfigFile
    /\ s_args = [atlassian_domain |-> None, add_labels |-> <<>>, remove_labels |-> <<>>]
    /\ s_pc = "idle"
    /\ s_domain = None
    /\ s_user = None
    /\ s_password = None
    /\ s_url = <<>>
    /\ s_error = None
    \* the label tool and the generator, idle
    /\ remote = [k \in Range(IssueKeys) |-> <<>>]
    /\ server_cap = limit
    /\ args = [keys |-> <<>>, jql |-> None, add_labels |-> <<>>,
               remove_labels |-> <<>>, dry_run |-> TRUE]
    /\ pc = "idle"
    /\ key_idx = 0
    /\ start = 0
    /\ page = <<>>
    /\ page_idx = 0
    /\ num_issues = 0
    /\ num_updated_issues = 0
    /\ update_calls = <<>>
    /\ cur = NoIssue
    /\ processed = <<>>
    /\ remote0 = remote
    /\ f_result = <<>>
    /\ f_cap = {limit}
    /\ f_pc = "idle"
    /\ f_start = 0
    /\ f_total = -1
    /\ f_page = <<>>
    /\ f_idx = 0
    /\ f_yielded = <<>>
    /\ f_requests = <<>>

SpecIssue == IssueInit /\ [][IssueNext]_vars

\* the label tool's main before the loop, on every configuration file and
\* command line of the model; the loop and the download tool are not run
SessionInit ==
    /\ s_cfg \in ConfigFiles
    /\ s_args \in SessionArgs
    /\ s_pc = "start"
    /\ s_domain = None
    /\ s_user = None
    /\ s_password = None
    /\ s_url = <<>>
    /\ s_error = None
    /\ remote = [k \in Range(IssueKeys) |-> <<>>]
    /\ server_cap = limit
    /\ args = [keys |-> <<>>, jql |-> None, add_labels |-> <<>>,
               remove_labels |-> <<>>, dry_run |-> TRUE]
    /\ pc = "idle"
    /\ key_idx = 0
    /\ start = 0
    /\ page = <<>>
    /\ page_idx = 0
    /\ num_issues = 0
    /\ num_updated_issues = 0
    /\ update_calls = <<>>
    /\ cur = NoIssue
    /\ processed = <<>>
    /\ remote0 = remote
    /\ f_result = <<>>
    /\ f_cap = {limit}
    /\ f_pc = "idle"
    /\ f_start = 0
    /\ f_total = -1
    /\ f_page = <<>>
    /\ f_idx = 0
    /\ f_yielded = <<>>
    /\ f_requests = <<>>
    /\ d_issues = <<>>
    /\ d_format = "text"
    /\ d_idx = 0
    /\ d_pc = "idle"
    /\ d_error = None
    /\ d_files = <<>>
    /\ d_download = FALSE
    /\ d_server = 0
    /\ d_dirs = {}
    /\ d_disk = <<>>

SpecSession == SessionInit /\ [][SessionNext]_vars


(***************************************************************************)
(* Claims about the label tool (checked under Spec).                       *)
(***************************************************************************)
\* the loop body has run on at least one issue
Processed == cur.key # None

InBoth == Range(args.add_labels) \cap Range(args.remove_labels)

\* C1: after the loop body has run on an issue, no label that is in both the add
\* list and the remove list is in the computed new label list (remove wins), whether
\* or not the issue had the label.
C1_RemoveWins ==
    Processed => \A label \in InBoth : label \notin Range(cur.new_labels)

\* C2: when the loop body runs on an issue that this run has already updated with
\* the same --add and --remove (so on the label list its first pass produced), the
\* computed list equals its input and the update flag stays false.
C2_SecondPassChangesNothing ==
    [][(/\ num_issues' = num_issues + 1
        /\ \E i \in DOMAIN update_calls : update_calls[i].key = cur'.key)
       => (cur'.new_labels = cur'.old_labels /\ ~cur'.update_labels)]_vars

\* C3: a step of the loop counts the issue as updated, or issues an
\* update_issue_field call, only if the set of labels of the computed new list
\* differs from the set of the issue's original labels.
C3_UpdatedOnlyIfSetChanged ==
    [][(num_updated_issues' # num_updated_issues \/ update_calls' # update_calls)
       => Range(cur'.new_labels) # Range(cur'.old_labels)]_vars

\* an issue was counted as updated and the update call was issued for it
C3_Witness ==
    /\ Processed /\ cur.update_labels /\ cur.called
    /\ num_updated_issues > 0
    /\ update_calls # <<>>
    /\ args.add_labels # <<>> /\ args.remove_labels # <<>>

\* C4: in dry-run mode no update_issue_field call is ever issued and no step changes
\* the labels the tracker holds, whatever the keys, the query and the lists; the new
\* list is still computed and counted: labels [a,b] with add [c], remove [a] give
\* [b,c] and an issue counted as updated.
C4_DryRunNeverWrites ==
    /\ [](args.dry_run => update_calls = <<>>)
    /\ [][args.dry_run =>
            /\ remote' = remote
            /\ update_calls' = update_calls
            /\ (/\ num_issues' = num_issues + 1
                /\ cur'.old_labels = <<"a", "b">>
                /\ args.add_labels = <<"c">>
                /\ args.remove_labels = <<"a">>)
               => (/\ cur'.new_labels = <<"b", "c">>
                   /\ cur'.update_labels
                   /\ num_updated_issues' = num_updated_issues + 1)]_vars

\* a finished dry run over issues from keys and from the query that computed
\* [b,c] from [a,b] and counted updates
C4_Witness ==
    /\ args.dry_run /\ pc = "done"
    /\ args.keys # <<>> /\ args.jql # None
    /\ num_issues > Len(args.keys)
    /\ cur.old_labels = <<"a", "b">> /\ cur.new_labels = <<"b", "c">>
    /\ cur.update_labels /\ ~cur.called
    /\ num_updated_issues > 0


(***************************************************************************)
(* Claims about the paginated fetch (checked under SpecFetch and, for      *)
(* termination, SpecFetchFair).                                            *)
(***************************************************************************)
IsPrefix(s, t) == Len(s) <= Len(t) /\ s = SubSeq(t, 1, Len(s))

\* C5: against an unchanging result set served in pages of at most `limit` records
\* from the offset asked for, the records yielded so far are always the first
\* records of the result set in server order (so none twice and none skipped), and
\* when the iteration has ended they are the whole result set.
C5_YieldsEveryRecordOnceInOrder ==
    /\ IsPrefix(f_yielded, f_result)
    /\ f_pc = "done" => f_yielded = f_result

\* an iteration that ended over a result set of exactly two full pages
C5_Witness ==
    /\ f_pc = "done"
    /\ Len(f_result) = 2 * limit /\ f_cap = {limit}
    /\ f_yielded = f_result
    /\ Len(f_requests) = 3

\* every request but the last returned records, and the offsets grow strictly
RequestsInOrder ==
    \A i \in DOMAIN f_requests :
        i < Len(f_requests) =>
            /\ f_requests[i].num_issues > 0
            /\ f_requests[i].start < f_requests[i + 1].start

\* C6: over a finite unchanging result set the iteration eventually ends; it has
\* ended exactly when the last request returned zero records, so it ends at the
\* first empty page and requests nothing after it; and each request uses a strictly
\* larger offset than the one before.
C6_EndsAtFirstEmptyPage ==
    /\ <>(f_pc = "done")
    /\ [](RequestsInOrder)
    /\ [](f_pc = "done" <=>
            (f_requests # <<>> /\ f_requests[Len(f_requests)].num_issues = 0))
    /\ [][f_pc = "done" => f_requests' = f_requests]_vars

\* an iteration that ended after several pages, the last one empty
C6_Witness ==
    /\ f_pc = "done"
    /\ Len(f_requests) >= 3
    /\ f_requests[Len(f_requests)].num_issues = 0
    /\ f_requests[Len(f_requests)].start = Len(f_result)

\* page size 200 served in full, 401 records
Scenario401 == Len(f_result) = 2 * limit + 1 /\ \A c \in f_cap : c >= limit

\* C7 as stated: with page size 200 and 401 issues the iteration yields 401 records
\* and issues exactly 3 search requests.
C7_ThreeRequests ==
    (Scenario401 /\ f_pc = "done") => (Len(f_yielded) = 401 /\ Len(f_requests) = 3)

\* C7 as amended: with page size 200 and 401 issues the iteration yields 401 records
\* and issues exactly 4 search requests: at offsets 0, 200 and 400, returning 200,
\* 200 and 1 records, and at offset 401, returning none, which ends it.
C7_FourRequests ==
    (Scenario401 /\ f_pc = "done") =>
        /\ Len(f_yielded) = 401
        /\ f_requests = << [start |-> 0, num_issues |-> 200],
                           [start |-> 200, num_issues |-> 200],
                           [start |-> 400, num_issues |-> 1],
                           [start |-> 401, num_issues |-> 0] >>

\* the iteration over 401 records has ended
C7_Witness ==
    /\ Scenario401 /\ f_pc = "done" /\ f_cap = {limit}
    /\ Len(f_yielded) = 401
    /\ Len(f_requests) = 4


(***************************************************************************)
(* Claims about the download tool's loop (checked under SpecIssue).        *)
(***************************************************************************)
FieldsOf(rec) == get_value(rec, "fields").v

\* the field is not in the payload
IsAbsent(rec, f) == f \notin DOMAIN FieldsOf(rec)

\* the field is in the payload and null
IsNull(rec, f) == f \in DOMAIN FieldsOf(rec) /\ FieldsOf(rec)[f].t = "None"

\* the two records differ only in field f: absent from a, null in b
DifferOnlyAbsentVsNull(a, b, f) ==
    /\ IsAbsent(a, f) /\ IsNull(b, f)
    /\ \A g \in Fields \ {f} :
          /\ g \in DOMAIN FieldsOf(a) <=> g \in DOMAIN FieldsOf(b)
          /\ g \in DOMAIN FieldsOf(a) =>
                (FieldsOf(a)[g].t = FieldsOf(b)[g].t /\ FieldsOf(a)[g] = FieldsOf(b)[g])

\* the line of to_text that renders a field
LineOf(f) ==
    CASE f = "summary" -> "Summary"
      [] f = "description" -> "Description"
      [] f = "created" -> "Created"
      [] f = "reporter" -> "Reporter"
      [] f = "assignee" -> "Assignee"
      [] f = "resolution" -> "Resolution"
      [] f = "status" -> "Status"
      [] f = "priority" -> "Priority"
      [] f = "issuetype" -> "Type"
      [] f = "labels" -> "Labels"
      [] f = "comment" -> "Comments"

\* the fields that to_text prints on a line of their own
RenderedFields == Fields \ {"parent", "resolutiondate"}

RecordKey(rec) == get_value(rec, "key").v

\* the text file of the record was written in full
TextWritten(rec) ==
    /\ RecordKey(rec) \in DOMAIN d_files
    /\ d_files[RecordKey(rec)].format = "text"
    /\ d_files[RecordKey(rec)].complete

\* the yaml file of the record was written in full
YamlWritten(rec) ==
    /\ RecordKey(rec) \in DOMAIN d_files
    /\ d_files[RecordKey(rec)].format = "yaml"
    /\ d_files[RecordKey(rec)].complete

\* C8: when the text of two issues has been written and the issues differ only in
\* that a rendered field is absent from the payload of one and null in the other,
\* the line of that field differs between the two texts.
C8_NotFetchedDiffersFromNull ==
    \A i, j \in DOMAIN d_issues : \A f \in RenderedFields :
        (/\ DifferOnlyAbsentVsNull(d_issues[i], d_issues[j], f)
         /\ TextWritten(d_issues[i]) /\ TextWritten(d_issues[j]))
        => d_files[RecordKey(d_issues[i])].text[LineOf(f)]
             # d_files[RecordKey(d_issues[j])].text[LineOf(f)]

Missing(rec, f) == IsAbsent(rec, f) \/ IsNull(rec, f)

\* the optional fields of an issue payload
OptionalFields == {"parent", "resolution", "comment", "status", "priority", "issuetype",
                   "reporter", "assignee", "labels"}

\* no field of the payload other than optional ones is absent or null
OnlyOptionalMissing(rec) == \A f \in Fields \ OptionalFields : ~Missing(rec, f)

\* C9: whichever of the optional fields are absent or null, the loop does not end
\* in an exception on an issue whose other fields are all there; a yaml file
\* omits the key of a missing parent, resolution or comment, and a text file
\* prints a placeholder for a missing reporter, assignee or resolution.
C9_MissingSubObjectsNeverRaise ==
    /\ d_pc = "raised" => ~OnlyOptionalMissing(d_issues[d_idx])
    /\ \A i \in 1..d_idx :
          LET rec == d_issues[i]
              file == d_files[RecordKey(rec)]
          IN /\ YamlWritten(rec) =>
                   /\ Missing(rec, "parent") => "parent" \notin DOMAIN file.struct
                   /\ Missing(rec, "resolution") => "resolution" \notin DOMAIN file.struct
                   /\ Missing(rec, "comment") => "comments" \notin DOMAIN file.struct
             /\ TextWritten(rec) =>
                   /\ Missing(rec, "reporter") => file.text.Reporter = "Unknown"
                   /\ Missing(rec, "assignee") => file.text.Assignee = "Unknown"
                   /\ Missing(rec, "resolution") => file.text.Resolution = "Unresolved"

\* the issue has no comments: its comment field is a comment list without elements
HasNoComments(rec) ==
    /\ ~Missing(rec, "comment")
    /\ CommentsOf(FieldsOf(rec)["comment"]) = <<>>

\* C10: the structured output written for an issue that has no comments holds the
\* key "comments" with an empty list as its value.
C10_NoCommentsGivesEmptyList ==
    \A i \in 1..d_idx :
        (YamlWritten(d_issues[i]) /\ HasNoComments(d_issues[i]))
        => LET struct == d_files[RecordKey(d_issues[i])].struct
           IN "comments" \in DOMAIN struct /\ struct["comments"] = <<>>

\* the structured output of an issue without comments, and without a resolution,
\* was written
C10_Witness ==
    /\ d_idx >= 1
    /\ YamlWritten(d_issues[1]) /\ HasNoComments(d_issues[1])
    /\ "comments" \in DOMAIN FieldsOf(d_issues[1])["comment"].v
    /\ IsAbsent(d_issues[1], "resolution")
    /\ d_files["K1"].struct["comments"] = <<>>
    /\ "resolution" \notin DOMAIN d_files["K1"].struct

(***************************************************************************)
(* Claims about the label tool's main before the loop (SpecSession).       *)
(***************************************************************************)
\* C11: when --atlassian-domain is not given the domain of the DEFAULT section
\* is used: a run whose resolved domain has user and api_token and which has
\* labels to add or remove does not fail for the missing command-line domain,
\* and the url of every session made is that of the resolved domain, the one
\* whose section supplied user and api_token.
C11_SessionUsesResolvedDomain ==
    /\ s_error # "TypeError"
    /\ s_pc = "session" =>
          /\ s_url = <<"https://", s_domain>>
          /\ s_user = UserOf(s_domain)
          /\ s_password = TokenOf(s_domain)
          /\ ~Truthy(s_args.atlassian_domain) => s_domain = s_cfg.default_domain

(***************************************************************************)
(* Claims about the label tool's query and its own writes (Spec).          *)
(***************************************************************************)
\* the keys of the issues that matched the query when the run started
MatchedAtStart == {r.key : r \in Range(ResultSet(remote0, args.jql))}

\* how many times the loop body has run on the issue
TimesProcessed(k) == Cardinality({i \in DOMAIN processed : processed[i] = k})

\* the run selects its issues by query alone and writes to the tracker
QueryRunWithWrites == args.keys = <<>> /\ args.jql # None /\ ~args.dry_run

\* C12: in a finished non-dry run that selects its issues by query, every issue
\* that matched the query at the start has been processed exactly once and no
\* issue has been processed twice, also when the run's own label updates
\* change the result set of the query between two page requests.
C12_EveryMatchProcessedOnce ==
    (pc = "done" /\ QueryRunWithWrites) =>
        /\ \A k \in MatchedAtStart : TimesProcessed(k) = 1
        /\ \A k \in Range(IssueKeys) : TimesProcessed(k) <= 1

(***************************************************************************)
(* Claims about the files of the download tool (SpecIssue).                *)
(***************************************************************************)
\* C13: the structure written to the .yaml file of an issue whose key is not
\* null has a browse_url entry, and it is https://<domain>/browse/<key>, the
\* url of the Link line of the text format.
C13_YamlFileHasBrowseUrl ==
    \A i \in DOMAIN d_issues :
        LET rec == d_issues[i]
        IN (YamlWritten(rec) /\ get_value(rec, "key").t # "None") =>
              /\ "browse_url" \in DOMAIN d_files[RecordKey(rec)].struct
              /\ d_files[RecordKey(rec)].struct["browse_url"].v
                    = BrowseUrl(get_value(rec, "key"))

====
